---- MODULE Spec2Model ----
(***************************************************************************)
(* A model of wspool (github.com/yinebebt/wspool): a pool of WebSocket     *)
(* connections with a background health-check goroutine.                   *)
(*                                                                         *)
(* Handles (WsConn pointers) are numbered in dial order: handle h is ws[h]. *)
(* A critical section of the pool lock (Acquire, release, the body of      *)
(* Pool.Close, one sweep of startHealthCheck) or of a handle's mutex mu is *)
(* written once, as its Section.  Spec and SpecConn run a section as one   *)
(* action, taking the lock and giving it back; SpecLock runs it as two,    *)
(* Lock and Unlock, with the holder in the variables lock and mu.  What is *)
(* NOT protected by a lock is a step of its own: the nil check that opens  *)
(* Send and Close, the select of the scheduler, close(closeChan).          *)
(***************************************************************************)
EXTENDS Integers, Sequences, FiniteSets

VARIABLES
    config,             \* Config, as passed to New
    pool,               \* "none": New not called; "ready": New returned p; "failed": New returned an error
    conns,              \* Pool.conns: the idle handles, a sequence
    activeConnections,  \* Pool.activeConnections
    closeOnce,          \* Pool.closeOnce: "fresh", "running" (inside Do), "done"
    closeChan,          \* TRUE when Pool.closeChan is closed
    sched,              \* startHealthCheck: "none", "running" (at select), "sweeping" (took the ticker case), "stopped"
    ws,                 \* the WsConn objects: c (non-nil?), p (non-nil?), createdAt, lastUsedAt
    open,               \* the handles whose *websocket.Conn transport is open
    acquired,           \* the handles Acquire has returned to callers
    sendq,              \* handles with a Send call past its nil check, before its write
    closeq,             \* handles with a Close call past its nil check, before its close
    now,                \* time.Now()
    ret,                \* the last call that returned (or panicked), and what it returned
    lock,               \* Pool.lock: "free", or the call holding it: "Acquire", "Close", "sweep"
    mu,                 \* WsConn.mu of each handle: "free", or the call holding it: "Send", "Read", "Close"
    closeRuns,          \* history: how often the body of Pool.Close has run
    closeReturned       \* history: how many Pool.Close calls have returned

vars == <<config, pool, conns, activeConnections, closeOnce, closeChan, sched, ws,
          open, acquired, sendq, closeq, now, ret, lock, mu, closeRuns, closeReturned>>

\* ------------------------------------------------------------------ bounds
\* the largest MaxConn a configuration is drawn with
MaxConnBound == 2
\* the largest MaxConnLifetime / MaxConnIdleTime a configuration is drawn with
MaxThreshold == 1
\* the clock stops advancing here
MaxTime == 2
\* dials that can succeed in one run; a dial beyond them fails
MaxHandles == 3
\* Pool.Close calls in one run
MaxCloseCalls == 2
\* handles that have a Send or a Close call in flight at one time
MaxBusy == 1

\* ------------------------------------------------------------------ helpers
Handles == 1..MaxHandles

Range(s) == {s[i] : i \in 1..Len(s)}

Min(a, b) == IF a < b THEN a ELSE b

Max(a, b) == IF a > b THEN a ELSE b

NoHandle == 0

Ret(op, h, res) == [op |-> op, h |-> h, res |-> res]

MinConn == config.MinConn
MaxConn == config.MaxConn
MaxConnLifetime == config.MaxConnLifetime
MaxConnIdleTime == config.MaxConnIdleTime

\* The part of the state the pool's code reads and writes, as one value, so
\* that the statements of a function compose in the order the code runs them.
PoolState == [conns |-> conns, activeConnections |-> activeConnections, ws |-> ws, open |-> open]

\* dials that can still succeed in state s
Budget(s) == MaxHandles - Len(s.ws)

\* ------------------------------------------------------------------ WsConn
\* WsConn.Close as the pool calls it (under the pool lock, on a handle no
\* caller holds): a nil c returns an error, which every caller in pool.go
\* drops; otherwise the transport is closed and c set to nil.
\* activeConnections is not touched.
ConnClose(s, h) ==
    IF s.ws[h].c
    THEN [s EXCEPT !.ws[h].c = FALSE, !.open = @ \ {h}]
    ELSE s

\* ------------------------------------------------------------------ Pool
\* newConnection counting a connection twice
newConnectionTwice(s) ==
    [s EXCEPT !.activeConnections = @ + 2,
              !.ws = Append(@, [c |-> TRUE, p |-> FALSE, createdAt |-> now, lastUsedAt |-> now]),
              !.open = @ \cup {Len(s.ws) + 1}]

\* newConnection when the dial succeeds: count it and wrap it.  p is not set.
newConnection(s) ==
    [s EXCEPT !.activeConnections = @ + 1,
              !.ws = Append(@, [c |-> TRUE, p |-> FALSE, createdAt |-> now, lastUsedAt |-> now]),
              !.open = @ \cup {Len(s.ws) + 1}]

\* the handle newConnection(s) returns
NewHandle(s) == Len(s.ws) + 1

\* New's loop, k dials succeeding: each connection is appended to conns.
RECURSIVE InitConns(_, _)
InitConns(s, k) ==
    IF k = 0 THEN s
    ELSE InitConns([newConnection(s) EXCEPT !.conns = Append(@, NewHandle(s))], k - 1)

\* the dials the first loop of maintainPoolSize wants
RefillNeed(s) == Max(MinConn - Len(s.conns), 0)

\* maintainPoolSize's first loop with k dials succeeding (k < RefillNeed: the
\* k+1st dial failed, break).
RECURSIVE Refill(_, _)
Refill(s, k) ==
    IF k = 0 THEN s
    ELSE Refill([newConnection(s) EXCEPT !.conns = Append(@, NewHandle(s))], k - 1)

\* maintainPoolSize's second loop: close idle handles from the tail while
\* there are more than MaxConn.
RECURSIVE Trim(_)
Trim(s) ==
    IF Len(s.conns) > MaxConn
    THEN Trim(ConnClose([s EXCEPT !.conns = SubSeq(@, 1, Len(@) - 1)], s.conns[Len(s.conns)]))
    ELSE s

\* maintainPoolSize without its first loop
maintainNoRefill(s, k) == Trim(s)

maintainPoolSize(s, k) == Trim(Refill(s, k))

\* the numbers of successful dials maintainPoolSize can see in state s
RefillOutcomes(s) == 0..Min(RefillNeed(s), Budget(s))

\* Pool.release: requeue below MaxConn idle handles, close otherwise, then
\* maintainPoolSize.
release(s, h, k) ==
    maintainPoolSize(
        IF Len(s.conns) < MaxConn
        THEN [s EXCEPT !.conns = Append(@, h)]
        ELSE ConnClose(s, h),
        k)

\* isIdleOrExpired(conn, now)
isIdleOrExpired(s, h) ==
    \/ MaxConnLifetime > 0 /\ now - s.ws[h].createdAt > MaxConnLifetime
    \/ MaxConnIdleTime > 0 /\ now - s.ws[h].lastUsedAt > MaxConnIdleTime

\* a close loop that closes every connection the pool ever made, the
\* acquired ones too
CloseEvery(s, hs) ==
    [s EXCEPT !.ws = [h \in 1..Len(s.ws) |-> [s.ws[h] EXCEPT !.c = FALSE]],
              !.open = {}]

\* the sweep's loop: close the expired idle handles, keep the others in order
RECURSIVE CloseAll(_, _)
CloseAll(s, hs) ==
    IF hs = <<>> THEN s ELSE CloseAll(ConnClose(s, Head(hs)), Tail(hs))

\* the sweep closing the expired handles but keeping them in conns
EvictKeepsClosed(s) ==
    CloseAll(s, SelectSeq(s.conns, LAMBDA h : isIdleOrExpired(s, h)))

Evict(s) ==
    [CloseAll(s, SelectSeq(s.conns, LAMBDA h : isIdleOrExpired(s, h)))
        EXCEPT !.conns = SelectSeq(s.conns, LAMBDA h : ~isIdleOrExpired(s, h))]

\* Acquire dialing at the ceiling too
CanDialAtCeiling(s) == s.activeConnections <= MaxConn

\* Acquire's test before dialing
CanDial(s) == s.activeConnections < MaxConn

\* Pool.Close without closeOnce
OnceAlways == closeOnce # "running"

\* closeOnce.Do runs its function
OnceFresh == closeOnce = "fresh"

\* write a pool state back
Store(s) ==
    /\ conns' = s.conns
    /\ activeConnections' = s.activeConnections
    /\ ws' = s.ws
    /\ open' = s.open

\* a critical section of p.lock entered with no regard to the lock
HoldsAny(who) == TRUE

\* p.lock.Lock() has returned for the call who ("free": the section is run
\* as one step and finds the lock free)
HoldsLock(who) == lock = who

\* an Unlock that the error returns skip
unlockOnSuccess(res) == IF res = "ok" THEN "free" ELSE lock

\* defer p.lock.Unlock(): the lock is free when the call returns, whatever
\* it returns
deferUnlock(res) == "free"

\* the handles whose mu is held
Held == {h \in Handles : mu[h] # "free"}

\* conn.Close() inside a section of p.lock: a nil c returns at once, anything
\* else takes w.mu
MuFree(hs) == \A h \in hs : ws[h].c => mu[h] = "free"

\* the pool exists and the process has not died of a panic
Running == pool = "ready" /\ ret.res # "panic"

\* ------------------------------------------------------------------ initial state
Configs ==
    {cf \in [MinConn : 0..MaxConnBound, MaxConn : 1..MaxConnBound,
             MaxConnLifetime : 0..MaxThreshold, MaxConnIdleTime : 0..MaxThreshold,
             dialerAndURL : BOOLEAN] : cf.MinConn <= cf.MaxConn}

Init ==
    /\ config \in Configs
    /\ pool = "none"
    /\ conns = <<>>
    /\ activeConnections = 0
    /\ closeOnce = "fresh"
    /\ closeChan = FALSE
    /\ sched = "none"
    /\ ws = <<>>
    /\ open = {}
    /\ acquired = {}
    /\ sendq = {}
    /\ closeq = {}
    /\ now = 0
    /\ ret = Ret("none", NoHandle, "none")
    /\ lock = "free"
    /\ mu = [h \in Handles |-> "free"]
    /\ closeRuns = 0
    /\ closeReturned = 0

\* ------------------------------------------------------------------ New
\* New(config): the configuration check, then MinConn dials, the first k of
\* which succeed.  With k = MinConn the scheduler goroutine is started and the
\* pool returned; with k < MinConn New returns the dial's error, and the k
\* connections it opened are left as they are.
New ==
    /\ pool = "none"
    /\ IF ~config.dialerAndURL
       THEN /\ pool' = "failed"
            /\ ret' = Ret("New", NoHandle, "ConfigError")
            /\ UNCHANGED <<conns, activeConnections, ws, open, sched>>
       ELSE \E k \in 0..MinConn :
            /\ Store(InitConns(PoolState, k))
            /\ IF k = MinConn
               THEN pool' = "ready" /\ sched' = "running" /\ ret' = Ret("New", NoHandle, "ok")
               ELSE pool' = "failed" /\ sched' = sched /\ ret' = Ret("New", NoHandle, "DialError")
    /\ UNCHANGED <<lock, mu, config, closeOnce, closeChan, acquired, sendq, closeq, now,
                   closeRuns, closeReturned>>

\* ------------------------------------------------------------------ Acquire
\* Acquire, one critical section of the pool lock.
AcquireSection ==
    /\ Running
    /\ IF Len(conns) > 0
       THEN /\ conns' = SubSeq(conns, 1, Len(conns) - 1)
            /\ acquired' = acquired \cup {conns[Len(conns)]}
            /\ ret' = Ret("Acquire", conns[Len(conns)], "ok")
            /\ UNCHANGED <<activeConnections, ws, open>>
       ELSE IF CanDial(PoolState)
       THEN \E dialed \in IF Budget(PoolState) > 0 THEN BOOLEAN ELSE {FALSE} :
            IF dialed
            THEN /\ Store([newConnection(PoolState) EXCEPT !.activeConnections = @ + 1])
                 /\ acquired' = acquired \cup {NewHandle(PoolState)}
                 /\ ret' = Ret("Acquire", NewHandle(PoolState), "ok")
            ELSE /\ ret' = Ret("Acquire", NoHandle, "DialError")
                 /\ UNCHANGED <<conns, activeConnections, ws, open, acquired>>
       ELSE /\ ret' = Ret("Acquire", NoHandle, "PoolExhausted")
            /\ UNCHANGED <<conns, activeConnections, ws, open, acquired>>
    /\ UNCHANGED <<config, pool, closeOnce, closeChan, sched, sendq, closeq, now,
                   closeRuns, closeReturned>>

\* Acquire as one step: p.lock is taken, the section runs, p.lock is given back.
Acquire ==
    /\ HoldsLock("free")
    /\ AcquireSection
    /\ UNCHANGED <<lock, mu>>

\* Acquire: p.lock.Lock(), which waits until the lock is free.
AcquireLock ==
    /\ Running
    /\ lock = "free"
    /\ lock' = "Acquire"
    /\ mu' = mu
    /\ UNCHANGED <<config, pool, conns, activeConnections, closeOnce, closeChan, sched, ws,
                   open, acquired, sendq, closeq, now, ret, closeRuns, closeReturned>>

\* Acquire: the section, and p.lock.Unlock() on return.  A handle the
\* section closes has its mu taken inside conn.Close(), which waits for it.
AcquireUnlock ==
    /\ HoldsLock("Acquire")
    /\ AcquireSection
    /\ lock' = deferUnlock(ret'.res)
    /\ mu' = mu

\* ------------------------------------------------------------------ WsConn, as callers use it
\* Send, SendMessage, SendJSON: the unlocked test of w.c.
SendCheck(h) ==
    /\ Running
    /\ h \in acquired
    /\ h \notin sendq
    /\ Cardinality(sendq \cup closeq \cup {h}) <= MaxBusy
    /\ IF ws[h].c
       THEN sendq' = sendq \cup {h} /\ ret' = ret
       ELSE sendq' = sendq /\ ret' = Ret("Send", h, "ClosedConnection")
    /\ UNCHANGED <<lock, mu, config, pool, conns, activeConnections, closeOnce, closeChan, sched,
                   ws, open, acquired, closeq, now, closeRuns, closeReturned>>

\* Send, SendMessage, SendJSON: under w.mu, stamp lastUsedAt and write to
\* w.c; a method call on a nil *websocket.Conn dereferences it.
SendSection(h) ==
    /\ Running
    /\ h \in sendq
    /\ sendq' = sendq \ {h}
    /\ ws' = [ws EXCEPT ![h].lastUsedAt = now]
    /\ ret' = Ret("Send", h, IF ws[h].c THEN "ok" ELSE "panic")
    /\ UNCHANGED <<config, pool, conns, activeConnections, closeOnce, closeChan, sched,
                   open, acquired, closeq, now, closeRuns, closeReturned>>

\* Send, SendMessage, SendJSON as one step: w.mu is taken, the section runs, w.mu is given back.
SendWrite(h) ==
    /\ mu[h] = "free"
    /\ SendSection(h)
    /\ UNCHANGED <<lock, mu>>

\* Send, SendMessage, SendJSON: w.mu.Lock(), which waits until the mutex is free.
SendLock(h) ==
    /\ Running
    /\ h \in sendq
    /\ mu[h] = "free"
    /\ mu' = [mu EXCEPT ![h] = "Send"]
    /\ lock' = lock
    /\ UNCHANGED <<config, pool, conns, activeConnections, closeOnce, closeChan, sched, ws,
                   open, acquired, sendq, closeq, now, ret, closeRuns, closeReturned>>

\* Send, SendMessage, SendJSON: the section, and w.mu.Unlock() on return.
SendUnlock(h) ==
    /\ mu[h] = "Send"
    /\ SendSection(h)
    /\ mu' = [mu EXCEPT ![h] = "free"]
    /\ lock' = lock

\* ReadMessage, ReadJson: under w.mu, read from w.c, with no test of w.c.
ReadSection(h) ==
    /\ Running
    /\ h \in acquired
    /\ ret' = Ret("Read", h, IF ws[h].c THEN "ok" ELSE "panic")
    /\ UNCHANGED <<config, pool, conns, activeConnections, closeOnce, closeChan, sched,
                   ws, open, acquired, sendq, closeq, now, closeRuns, closeReturned>>

\* ReadMessage, ReadJson as one step: w.mu is taken, the section runs, w.mu is given back.
Read(h) ==
    /\ mu[h] = "free"
    /\ ReadSection(h)
    /\ UNCHANGED <<lock, mu>>

\* ReadMessage, ReadJson: w.mu.Lock(), which waits until the mutex is free.
ReadLock(h) ==
    /\ Running
    /\ h \in acquired
    /\ Cardinality(Held \cup sendq \cup closeq \cup {h}) <= MaxBusy
    /\ mu[h] = "free"
    /\ mu' = [mu EXCEPT ![h] = "Read"]
    /\ lock' = lock
    /\ UNCHANGED <<config, pool, conns, activeConnections, closeOnce, closeChan, sched, ws,
                   open, acquired, sendq, closeq, now, ret, closeRuns, closeReturned>>

\* ReadMessage, ReadJson: the section, and w.mu.Unlock() on return.
ReadUnlock(h) ==
    /\ mu[h] = "Read"
    /\ ReadSection(h)
    /\ mu' = [mu EXCEPT ![h] = "free"]
    /\ lock' = lock

\* WsConn.Close: the unlocked test of w.c.
CloseCheck(h) ==
    /\ Running
    /\ h \in acquired
    /\ h \notin closeq
    /\ Cardinality(sendq \cup closeq \cup {h}) <= MaxBusy
    /\ IF ws[h].c
       THEN closeq' = closeq \cup {h} /\ ret' = ret
       ELSE closeq' = closeq /\ ret' = Ret("Close", h, "ClosedConnection")
    /\ UNCHANGED <<lock, mu, config, pool, conns, activeConnections, closeOnce, closeChan, sched,
                   ws, open, acquired, sendq, now, closeRuns, closeReturned>>

\* WsConn.Close: under w.mu, close the transport and set w.c to nil.
CloseSection(h) ==
    /\ Running
    /\ h \in closeq
    /\ closeq' = closeq \ {h}
    /\ IF ws[h].c
       THEN /\ ws' = [ws EXCEPT ![h].c = FALSE]
            /\ open' = open \ {h}
            /\ ret' = Ret("Close", h, "ok")
       ELSE /\ ret' = Ret("Close", h, "panic")
            /\ UNCHANGED <<ws, open>>
    /\ UNCHANGED <<config, pool, conns, activeConnections, closeOnce, closeChan, sched,
                   acquired, sendq, now, closeRuns, closeReturned>>

\* WsConn.Close as one step: w.mu is taken, the section runs, w.mu is given back.
CloseDo(h) ==
    /\ mu[h] = "free"
    /\ CloseSection(h)
    /\ UNCHANGED <<lock, mu>>

\* WsConn.Close: w.mu.Lock(), which waits until the mutex is free.
CloseLock(h) ==
    /\ Running
    /\ h \in closeq
    /\ mu[h] = "free"
    /\ mu' = [mu EXCEPT ![h] = "Close"]
    /\ lock' = lock
    /\ UNCHANGED <<config, pool, conns, activeConnections, closeOnce, closeChan, sched, ws,
                   open, acquired, sendq, closeq, now, ret, closeRuns, closeReturned>>

\* WsConn.Close: the section, and w.mu.Unlock() on return.
CloseUnlock(h) ==
    /\ mu[h] = "Close"
    /\ CloseSection(h)
    /\ mu' = [mu EXCEPT ![h] = "free"]
    /\ lock' = lock

\* WsConn.Release: nothing when w.c or w.p is nil; otherwise w.p.release(w)
\* and then w.c = nil.
Release(h) ==
    /\ Running
    /\ h \in acquired
    /\ IF ws[h].c /\ ws[h].p
       THEN \E k \in RefillOutcomes(PoolState) :
            HoldsLock("free") /\ mu[h] = "free" /\ Store([release(PoolState, h, k) EXCEPT !.ws[h].c = FALSE])
       ELSE UNCHANGED <<conns, activeConnections, ws, open>>
    /\ ret' = Ret("Release", h, "ok")
    /\ UNCHANGED <<lock, mu, config, pool, closeOnce, closeChan, sched, acquired, sendq, closeq,
                   now, closeRuns, closeReturned>>

\* ------------------------------------------------------------------ Pool.Close
\* Pool.Close, the first statement inside closeOnce.Do: close(closeChan).
\* Closing a closed channel panics.
PoolCloseSignal ==
    /\ Running
    /\ OnceFresh
    /\ closeOnce' = "running"
    /\ closeChan' = TRUE
    /\ ret' = IF closeChan THEN Ret("PoolClose", NoHandle, "panic") ELSE ret
    /\ UNCHANGED <<lock, mu, config, pool, conns, activeConnections, sched, ws, open, acquired,
                   sendq, closeq, now, closeRuns, closeReturned>>

\* Pool.Close, the rest of the function inside closeOnce.Do, under the pool
\* lock: close every idle handle, conns = nil.  The call returns.
PoolCloseSection ==
    /\ Running
    /\ closeOnce = "running"
    /\ Store([CloseAll(PoolState, conns) EXCEPT !.conns = <<>>])
    /\ closeOnce' = "done"
    /\ closeRuns' = closeRuns + 1
    /\ closeReturned' = closeReturned + 1
    /\ ret' = Ret("PoolClose", NoHandle, "ok")
    /\ UNCHANGED <<config, pool, closeChan, sched, acquired, sendq, closeq, now>>

\* Pool.Close as one step: p.lock is taken, the section runs, p.lock is given back.
PoolCloseBody ==
    /\ HoldsLock("free")
    /\ MuFree(Range(conns))
    /\ PoolCloseSection
    /\ UNCHANGED <<lock, mu>>

\* Pool.Close: p.lock.Lock(), which waits until the lock is free.
PoolCloseLock ==
    /\ Running
    /\ closeOnce = "running"
    /\ lock = "free"
    /\ lock' = "Close"
    /\ mu' = mu
    /\ UNCHANGED <<config, pool, conns, activeConnections, closeOnce, closeChan, sched, ws,
                   open, acquired, sendq, closeq, now, ret, closeRuns, closeReturned>>

\* Pool.Close: the section, and p.lock.Unlock() on return.  A handle the
\* section closes has its mu taken inside conn.Close(), which waits for it.
PoolCloseUnlock ==
    /\ HoldsLock("Close")
    /\ MuFree(Range(conns))
    /\ PoolCloseSection
    /\ lock' = deferUnlock(ret'.res)
    /\ mu' = mu

\* Pool.Close by another caller: closeOnce.Do returns once the first call's
\* function has returned, without running it.
PoolCloseAgain ==
    /\ Running
    /\ closeOnce = "done"
    /\ ~OnceFresh
    /\ closeReturned < MaxCloseCalls
    /\ closeReturned' = closeReturned + 1
    /\ ret' = Ret("PoolClose", NoHandle, "ok")
    /\ UNCHANGED <<lock, mu, config, pool, conns, activeConnections, closeOnce, closeChan, sched,
                   ws, open, acquired, sendq, closeq, now, closeRuns>>

\* ------------------------------------------------------------------ startHealthCheck
\* select takes the ticker case.  A tick can be ready whatever else is: Go's
\* select picks among the ready cases at random, so this is enabled also
\* when closeChan is closed.
SchedTick ==
    /\ Running
    /\ sched = "running"
    /\ sched' = "sweeping"
    /\ UNCHANGED <<lock, mu, config, pool, conns, activeConnections, closeOnce, closeChan, ws,
                   open, acquired, sendq, closeq, now, ret, closeRuns, closeReturned>>

\* the ticker case, one critical section of the pool lock: close the expired
\* idle handles, keep the rest, maintainPoolSize.
SweepSection ==
    /\ Running
    /\ sched = "sweeping"
    /\ \E k \in RefillOutcomes(Evict(PoolState)) :
        /\ Store(maintainPoolSize(Evict(PoolState), k))
        /\ ret' = Ret("sweep", NoHandle,
                      IF k < RefillNeed(Evict(PoolState)) THEN "DialError" ELSE "ok")
    /\ sched' = "running"
    /\ UNCHANGED <<config, pool, closeOnce, closeChan, acquired, sendq, closeq, now,
                   closeRuns, closeReturned>>

\* the sweep as one step: p.lock is taken, the section runs, p.lock is given back.
SchedSweep ==
    /\ HoldsLock("free")
    /\ MuFree({h \in Range(conns) : isIdleOrExpired(PoolState, h)})
    /\ SweepSection
    /\ UNCHANGED <<lock, mu>>

\* the sweep: p.lock.Lock(), which waits until the lock is free.
SweepLock ==
    /\ Running
    /\ sched = "sweeping"
    /\ lock = "free"
    /\ lock' = "sweep"
    /\ mu' = mu
    /\ UNCHANGED <<config, pool, conns, activeConnections, closeOnce, closeChan, sched, ws,
                   open, acquired, sendq, closeq, now, ret, closeRuns, closeReturned>>

\* the sweep: the section, and p.lock.Unlock() at its end.  A handle the
\* section closes has its mu taken inside conn.Close(), which waits for it.
SweepUnlock ==
    /\ HoldsLock("sweep")
    /\ MuFree({h \in Range(conns) : isIdleOrExpired(PoolState, h)})
    /\ SweepSection
    /\ lock' = "free"
    /\ mu' = mu

\* the closeChan case leaving the select and not the loop
SchedStopBreak ==
    /\ pool = "ready"
    /\ sched = "running"
    /\ closeChan
    /\ UNCHANGED <<lock, mu, config, pool, conns, activeConnections, closeOnce, closeChan, sched,
                   ws, open, acquired, sendq, closeq, now, ret, closeRuns, closeReturned>>

\* select takes the closeChan case: return.
SchedStop ==
    /\ Running
    /\ sched = "running"
    /\ closeChan
    /\ sched' = "stopped"
    /\ UNCHANGED <<lock, mu, config, pool, conns, activeConnections, closeOnce, closeChan, ws,
                   open, acquired, sendq, closeq, now, ret, closeRuns, closeReturned>>

\* ------------------------------------------------------------------ time
\* The clock advances; it reads 0 when New is called.
Advance ==
    /\ Running
    /\ now < MaxTime
    /\ now' = now + 1
    /\ UNCHANGED <<lock, mu, config, pool, conns, activeConnections, closeOnce, closeChan, sched,
                   ws, open, acquired, sendq, closeq, ret, closeRuns, closeReturned>>

\* ------------------------------------------------------------------ specifications
\* The pool and its scheduler, with callers that acquire and release.
Next ==
    \/ New
    \/ Acquire
    \/ \E h \in Handles : Release(h)
    \/ PoolCloseSignal
    \/ PoolCloseBody
    \/ PoolCloseAgain
    \/ SchedTick
    \/ SchedSweep
    \/ SchedStop
    \/ Advance

Spec == Init /\ [][Next]_vars

\* The same with callers that also send, read and close their handles from
\* several goroutines.  The clock stands still and no expiry is configured:
\* the stamps a Send leaves are read by the sweep alone, and only on idle
\* handles.
InitConn == Init /\ config.MaxConnLifetime = 0 /\ config.MaxConnIdleTime = 0

NextConn ==
    \/ New
    \/ Acquire
    \/ \E h \in Handles : SendCheck(h)
    \/ \E h \in Handles : SendWrite(h)
    \/ \E h \in Handles : Read(h)
    \/ \E h \in Handles : CloseCheck(h)
    \/ \E h \in Handles : CloseDo(h)
    \/ \E h \in Handles : Release(h)
    \/ PoolCloseSignal
    \/ PoolCloseBody
    \/ PoolCloseAgain
    \/ SchedTick
    \/ SchedSweep
    \/ SchedStop

SpecConn == InitConn /\ [][NextConn]_vars

\* Spec under fair scheduling, with no expiry configured as in InitConn:
\* whether the goroutine returns does not hang on what a sweep evicts.
\* select chooses among its ready cases uniformly at random, so the
\* closeChan case, ready each time the loop is back at the select, is not
\* passed over for ever: strong fairness.  A sweep that has begun gets the
\* pool lock and finishes: weak fairness.
SpecFair == InitConn /\ [][Next]_vars /\ SF_vars(SchedStop) /\ WF_vars(SchedSweep)

\* SpecConn with every critical section in two steps, Lock and Unlock, so
\* that a goroutine can hold a lock while the others run.
NextLock ==
    \/ New
    \/ AcquireLock
    \/ AcquireUnlock
    \/ \E h \in Handles : SendCheck(h)
    \/ \E h \in Handles : SendLock(h)
    \/ \E h \in Handles : SendUnlock(h)
    \/ \E h \in Handles : ReadLock(h)
    \/ \E h \in Handles : ReadUnlock(h)
    \/ \E h \in Handles : CloseCheck(h)
    \/ \E h \in Handles : CloseLock(h)
    \/ \E h \in Handles : CloseUnlock(h)
    \/ \E h \in Handles : Release(h)
    \/ PoolCloseSignal
    \/ PoolCloseLock
    \/ PoolCloseUnlock
    \/ PoolCloseAgain
    \/ SchedTick
    \/ SweepLock
    \/ SweepUnlock
    \/ SchedStop

SpecLock == InitConn /\ [][NextLock]_vars

\* ------------------------------------------------------------------ properties
\* the connections open in the pool's hands or a caller's
OpenCount == Cardinality({h \in Range(conns) \cup acquired : h \in open})

\* A handle is in the idle set or in a caller's hands, never both: what
\* callers do to their handles is invisible to the pool's code.
AcquiredNotIdle == Range(conns) \cap acquired = {}

\* C1: in every reachable state the number of open connections, idle plus
\* acquired and not closed, is at most MaxConn.
C1_OpenAtMostMaxConn == pool = "ready" => OpenCount <= MaxConn

\* C2: an Acquire that finds the idle set empty and activeConnections equal
\* to MaxConn returns the pool-exhausted error and no handle, dials nothing
\* and leaves the idle set and activeConnections as they were.
C2_ExhaustedAcquire ==
    [][(Len(conns) = 0 /\ activeConnections = MaxConn /\ Acquire)
        => /\ ret' = Ret("Acquire", NoHandle, "PoolExhausted")
           /\ UNCHANGED <<conns, activeConnections, ws, open, acquired>>]_vars

C2_Witness ==
    /\ ret = Ret("Acquire", NoHandle, "PoolExhausted")
    /\ Len(conns) = 0
    /\ activeConnections = MaxConn

\* C3: when Release(h) has returned on an open acquired handle and nothing
\* else has happened since, the next Acquire returns h.
C3_ReleaseThenAcquireSame ==
    [][\A h \in Handles :
        (/\ ret = Ret("Release", h, "ok")
         /\ closeOnce = "fresh"
         /\ sched = "running"
         /\ Acquire)
        => ret' = Ret("Acquire", h, "ok")]_vars

\* C4: with a dialer and URL, 0 < MinConn <= MaxConn and every dial
\* succeeding, when New returns the idle set holds exactly MinConn open
\* handles, none is acquired, and activeConnections = MinConn.
C4_NewPrewarms ==
    [][(config.dialerAndURL /\ 0 < MinConn /\ MinConn <= MaxConn /\ ret'.res = "ok" /\ New)
        => /\ pool' = "ready"
           /\ Len(conns') = MinConn
           /\ Cardinality(Range(conns')) = MinConn
           /\ \A h \in Range(conns') : ws'[h].c /\ h \in open'
           /\ open' = Range(conns')
           /\ acquired' = {}
           /\ activeConnections' = MinConn]_vars

C4_Witness ==
    /\ ret = Ret("New", NoHandle, "ok")
    /\ MinConn = MaxConnBound
    /\ Len(conns) = MinConn
    /\ activeConnections = MinConn

\* C5: a Release of an open handle while the idle set holds MaxConn handles
\* closes the handle, does not append it to the idle set, and lowers
\* activeConnections by exactly one.
C5_ReleaseAtCapacityCloses ==
    [][\A h \in Handles :
        (Release(h) /\ ws[h].c /\ Len(conns) = MaxConn)
        => /\ ~ws'[h].c
           /\ h \notin open'
           /\ h \notin Range(conns')
           /\ activeConnections' = activeConnections - 1]_vars

\* C6: once Pool.Close has returned, no sweep (and so no refill) runs.
C6_NoSweepAfterClose == [][closeOnce = "done" => ~SchedSweep]_vars

\* C7: however often Pool.Close is called, its body runs exactly once and
\* no call panics.
C7_CloseOnce ==
    /\ closeRuns <= 1
    /\ closeReturned > 0 => closeRuns = 1
    /\ ~(ret.op = "PoolClose" /\ ret.res = "panic")

C7_Witness == closeReturned = MaxCloseCalls /\ closeRuns = 1 /\ closeReturned > 1

\* C8: a sweep in which no dial fails ends with at least MinConn idle
\* handles.
C8_SweepRefills ==
    [][(sched = "sweeping" /\ ret' = Ret("sweep", NoHandle, "ok") /\ SchedSweep)
        => Len(conns') >= MinConn]_vars

\* a sweep has evicted a handle and dialed its replacement
C8_Witness ==
    /\ ret = Ret("sweep", NoHandle, "ok")
    /\ closeOnce = "fresh"
    /\ MinConn > 0
    /\ Len(conns) = MinConn
    /\ \E h \in 1..Len(ws) : ~ws[h].c /\ h \notin acquired
    /\ \E g \in Range(conns) : now > 0 /\ ws[g].createdAt = now

\* what C9 calls expired, for handle h at the time of the sweep
ExpiredAt(h) ==
    \/ MaxConnLifetime > 0 /\ now - ws[h].createdAt > MaxConnLifetime
    \/ MaxConnIdleTime > 0 /\ now - ws[h].lastUsedAt > MaxConnIdleTime

\* the first half of C9: a sweep closes and removes exactly the expired idle
\* handles and keeps the others, open and in order
SweepEvictsExactlyExpired ==
    [][SchedSweep
        => /\ \A h \in Range(conns) :
                IF ExpiredAt(h)
                THEN ~ws'[h].c /\ h \notin open' /\ h \notin Range(conns')
                ELSE ws'[h].c /\ h \in open' /\ h \in Range(conns')
           /\ SelectSeq(conns', LAMBDA h : h \in Range(conns))
                = SelectSeq(conns, LAMBDA h : ~ExpiredAt(h))]_vars

SweepEvicts_Witness ==
    /\ ret.op = "sweep"
    /\ \E h \in 1..Len(ws) : ~ws[h].c /\ h \notin acquired /\ closeOnce = "fresh"
    /\ \E g \in Range(conns) : ws[g].createdAt < now

\* C9: a sweep closes and removes exactly the expired idle handles and keeps
\* the others in order; and a handle that was acquired, released and then
\* left unused for longer than MaxConnIdleTime is closed by the next sweep.
C9_SweepClosesExpired ==
    [][SchedSweep
        => /\ \A h \in Range(conns) :
                IF ExpiredAt(h)
                THEN ~ws'[h].c /\ h \notin Range(conns')
                ELSE ws'[h].c /\ h \in Range(conns')
           /\ SelectSeq(conns', LAMBDA h : h \in Range(conns))
                = SelectSeq(conns, LAMBDA h : ~ExpiredAt(h))
           /\ \A h \in Handles :
                (/\ ret = Ret("Release", h, "ok")
                 /\ MaxConnIdleTime > 0
                 /\ now - ws[h].lastUsedAt > MaxConnIdleTime)
                => ~ws'[h].c]_vars

\* C10: a step of Send on a handle that is closed ends the call with the
\* closed-connection error: no write, no panic, also when Close runs
\* between the steps of the Send.
C10_SendOnClosedFails ==
    [][\A h \in Handles :
        ((SendCheck(h) \/ SendWrite(h)) /\ ~ws[h].c)
        => ret' = Ret("Send", h, "ClosedConnection")]_vars

\* C11: when a dial fails during New, New returns an error and no pool,
\* every connection the earlier dials opened has been closed, and no
\* scheduler is running.
C11_FailedNewLeavesNothing ==
    ret = Ret("New", NoHandle, "DialError")
        => pool = "failed" /\ open = {} /\ sched = "none"

\* C12: a Release of an open acquired handle (the first after its
\* acquisition) hands the handle to the pool, which requeues it once or
\* closes it; a Release of a handle whose c is nil (a later one) changes
\* neither the idle set nor activeConnections; no handle is in the idle set
\* twice.
C12_ReleaseIdempotent ==
    [][\A h \in Handles :
        Release(h)
        => /\ IF ws[h].c
              THEN h \in Range(conns') \/ h \notin open'
              ELSE UNCHANGED <<conns, activeConnections>>
           /\ Cardinality(Range(conns')) = Len(conns')]_vars

\* C14: once Close has completed on a handle, a read and a second Close
\* return an error, do not panic and leave the handle as it is.
C14_ClosedHandleFails ==
    [][\A h \in Handles :
        (h \in acquired /\ ~ws[h].c /\ h \notin closeq /\ (Read(h) \/ CloseCheck(h)))
        => /\ ret'.h = h
           /\ ret'.res \in {"ClosedConnection", "TransportError"}
           /\ ws' = ws]_vars

\* C15: every handle Acquire has returned carries its pool in p, so that
\* Release reaches the pool.
C15_AcquiredHasOwner == \A h \in acquired : ws[h].p

\* C16: with 0 < MinConn and no pool operation in progress,
\* activeConnections is the number of open connections, idle plus acquired.
C16_ActiveCountsOpen ==
    (pool = "ready" /\ 0 < MinConn /\ closeOnce # "running")
        => activeConnections = OpenCount

\* C17: every handle in the idle set is open, its c not nil; so is every
\* handle Acquire has just popped.
C17_IdleHandlesOpen ==
    /\ \A h \in Range(conns) : ws[h].c /\ h \in open
    /\ (ret.op = "Acquire" /\ ret.res = "ok") => ws[ret.h].c /\ ret.h \in open

\* Acquire has popped an open handle from an idle set that a sweep has
\* evicted from
C17_Witness ==
    /\ ret.op = "Acquire" /\ ret.res = "ok"
    /\ ret.h \in acquired
    /\ closeOnce = "fresh"
    /\ \E g \in 1..Len(ws) : ~ws[g].c /\ g < ret.h

\* C13: Pool.Close leaves every acquired handle as it is, open if it was
\* open, and a Release after Pool.Close has completed returns normally.
C13_CloseLeavesAcquired ==
    [][/\ (closeOnce = "running" /\ PoolCloseBody)
            => \A h \in acquired : ws'[h] = ws[h] /\ (h \in open' <=> h \in open)
       /\ \A h \in Handles :
            (closeOnce = "done" /\ Release(h))
            => ret' = Ret("Release", h, "ok") /\ pool' = "ready" /\ closeOnce' = "done"]_vars

\* Pool.Close has completed with a handle out, which is still open after
\* its Release
C13_Witness ==
    /\ closeOnce = "done"
    /\ ret.op = "Release"
    /\ ret.h \in acquired \cap open
    /\ ws[ret.h].c

\* C20: once Pool.Close has closed closeChan the scheduler goroutine
\* eventually returns, whether the signal comes during a sweep or ticks keep
\* firing; once it has returned it stays so and no sweep runs.
C20_SchedulerStops ==
    /\ closeChan ~> (sched = "stopped")
    /\ [][sched = "stopped" => (sched' = "stopped" /\ ~SchedSweep)]_vars

\* the scheduler has returned after a sweep that ran when Pool.Close had
\* already returned
C20_Witness ==
    /\ sched = "stopped"
    /\ closeOnce = "done"
    /\ ret.op = "sweep"

\* C18: no call is stuck holding a lock.  The call that holds the pool
\* lock can always finish its section: Acquire whatever the capacity, with
\* nothing to wait for, and Pool.Close and the sweep because no handle they
\* close has its mu held by a caller (the pool lock comes first, a handle's
\* mu second).  The call that holds a handle's mu can always finish.  The
\* pool lock is free when the section's call returns.
C18_NoDeadlock ==
    /\ [](Running =>
            /\ lock = "Acquire" => ENABLED AcquireUnlock
            /\ lock = "Close" => ENABLED PoolCloseUnlock
            /\ lock = "sweep" => ENABLED SweepUnlock
            /\ \A h \in Handles :
                /\ mu[h] = "Send" => ENABLED SendUnlock(h)
                /\ mu[h] = "Read" => ENABLED ReadUnlock(h)
                /\ mu[h] = "Close" => ENABLED CloseUnlock(h))
    /\ [][(AcquireUnlock \/ PoolCloseUnlock \/ SweepUnlock) => lock' = "free"]_vars

\* Pool.Close holds the pool lock with idle handles to close while a caller
\* holds the mu of its handle
C18_Witness ==
    /\ lock = "Close"
    /\ Held # {}
    /\ Len(conns) > 0

\* C19: once New has returned the pool, a step that changes conns or
\* activeConnections is taken by the call that holds the pool lock, inside
\* its section.
C19_MutationsUnderLock ==
    [][(pool = "ready" /\ <<conns, activeConnections>>' # <<conns, activeConnections>>)
        => (lock \in {"Acquire", "Close", "sweep"} /\ lock' = "free")]_vars

\* a sweep has refilled the idle set behind an Acquire, a caller holding the
\* mu of its handle
C19_Witness ==
    /\ ret = Ret("sweep", NoHandle, "ok")
    /\ lock = "free"
    /\ acquired # {}
    /\ Len(conns) > 0
    /\ Held # {}

====
